---- MODULE Spec2Model ----
(***************************************************************************)
(* Model of the BLE peripheral session lifecycle of simple_volume_knob     *)
(* (src/src/bluetooth.rs): the advertise -> accept -> session loop of      *)
(* run_bluetooth, the GATT event dispatcher (gatt_events_task and          *)
(* handle_gatt_event), the notifier (custom_task, KeyPressed::send) and    *)
(* the single bond slot.  The BLE host engine (trouble_host) is the        *)
(* environment: it surfaces events, changes the link's security level and  *)
(* decides the outcome of every fallible call.                             *)
(***************************************************************************)
EXTENDS Naturals, Sequences, FiniteSets

\* ---------------------------------------------------------------- constants

\* bluetooth.rs:10  const CONNECTIONS_MAX: usize = 1;
CONNECTIONS_MAX == 1

\* bluetooth.rs:13  NAME = "Simple Volume Knob" (length in bytes)
NameLen == 18

\* bluetooth.rs:161  let mut advertiser_data = [0; 31];
AdvDataCap == 31

\* Bounds of the model: length of the host engine's event queue of a
\* connection (two events can wait together, and a disconnect can arrive
\* while an event waits), and the number of distinct bond materials the peer
\* can produce.
MaxQueue == 2
MaxBond == 2

\* crate::hid::HID_REPORT_INPUT_ID; its value is opaque to this module.
HID_REPORT_INPUT_ID == "HID_REPORT_INPUT_ID"

\* Option<BondInformation>: 0 is None, 1..MaxBond are bond materials.
NoBond == 0
BondValues == 0..MaxBond

\* trouble_host SecurityLevel and SecurityLevel::authenticated()
SecurityLevels == {"NoEncryption", "Encrypted", "EncryptedAuthenticated"}
authenticated(level) == level = "EncryptedAuthenticated"

\* AttErrorCode::INSUFFICIENT_AUTHENTICATION
INSUFFICIENT_AUTHENTICATION == "INSUFFICIENT_AUTHENTICATION"

\* Attribute handles an event can refer to: server.battery_service.level and
\* one other characteristic.
Handles == {"level", "status"}

\* GattConnectionEvent, as matched in gatt_events_task.
SimpleEventTypes ==
    {"PassKeyDisplay", "PassKeyConfirm", "PassKeyInput", "PairingFailed", "Unknown"}
HostEvents ==
    [type : SimpleEventTypes]
    \cup [type : {"PairingComplete"}, bond : BondValues]
    \cup [type : {"Gatt"}, kind : {"Read", "Write"}, handle : Handles]
    \cup [type : {"Gatt"}, kind : {"Other"}, handle : {"status"}]
DisconnectedEvent == [type |-> "Disconnected"]

\* ------------------------------------------------------------------ KeyPressed

KeyPressedValues == {"VolUp", "VolDown", "Mute", "None"}

\* Variant of as_report: Mute gets the bit of VolDown.
as_report_MuteAsVolDown(key) ==
    LET value == CASE key = "VolUp" -> 1
                   [] key = "VolDown" -> 2
                   [] key = "Mute" -> 2
                   [] key = "None" -> 0
    IN <<HID_REPORT_INPUT_ID, value>>

\* KeyPressed::as_report
as_report(key) ==
    LET value == CASE key = "VolUp" -> 1
                   [] key = "VolDown" -> 2
                   [] key = "Mute" -> 4
                   [] key = "None" -> 0
    IN <<HID_REPORT_INPUT_ID, value>>

\* ------------------------------------------------------------------ state

VARIABLES
    mainPc,        \* position of the loop of run_bluetooth
    diag,          \* which panic halted the device ("none" while running)
    bond_info,     \* run_bluetooth's bond_info: Option<BondInformation>
    liveConns,     \* number of GattConnection values alive
    bondable,      \* the flag given to conn.raw().set_bondable
    link,          \* "none" | "open" | "closed": the link, as the host engine has it
    secLevel,      \* the connection's current security level (host state)
    events,        \* events the host engine has surfaced, not yet taken
    gattPc,        \* gatt_events_task: "idle" | "next" | "sending"
    pendingReply,  \* the Reply whose send() gatt_events_task awaits
    customPc,      \* custom_task: "idle" | "unpolled" | "notify_key" | "delay50" | ...
    toggle,        \* custom_task's toggle
    sendLog,       \* notifications issued by the current KeyPressed::send call
    endReason,     \* why the latest session ended
    obs,           \* what the latest step decided or put on the link
    knobPc,        \* knob_controller: "unspawned" | "running"
    pin1,          \* level of the first encoder channel (1 is high)
    pin2,          \* level of the second encoder channel
    unsampled,     \* level changes since the decoder last read the levels
    in1_history,   \* knob_controller's in1_history: u8
    in2_history,   \* knob_controller's in2_history: u8
    rot,           \* what the latest decoder step reported
    samples,       \* the level pairs read by the decoder, the latest three
    turn,          \* direction of the turn made by all the samples so far
    reportLog      \* calls of KeyPressed::as_report: key and report

\* The state of the BLE side, of the decoder side, and of the calls of as_report.
bleVars == <<mainPc, diag, bond_info, liveConns, bondable, link, secLevel, events,
             gattPc, pendingReply, customPc, toggle, sendLog, endReason, obs>>
knobVars == <<knobPc, pin1, pin2, unsampled, in1_history, in2_history, rot,
              samples, turn>>
auxVars == <<knobVars, reportLog>>

vars == <<mainPc, diag, bond_info, liveConns, bondable, link, secLevel, events,
          gattPc, pendingReply, customPc, toggle, sendLog, endReason, obs,
          knobPc, pin1, pin2, unsampled, in1_history, in2_history, rot,
          samples, turn, reportLog>>

NoReply == [decision |-> "none", code |-> "none"]
NoObs == [what |-> "none"]

\* run_bluetooth has been called and is at the top of its loop.
BleInit ==
    /\ mainPc = "loop"
    /\ diag = "none"
    /\ bond_info = NoBond
    /\ liveConns = 0
    /\ bondable = FALSE
    /\ link = "none"
    /\ secLevel = "NoEncryption"
    /\ events = <<>>
    /\ gattPc = "idle"
    /\ pendingReply = NoReply
    /\ customPc = "idle"
    /\ toggle = TRUE
    /\ sendLog = <<>>
    /\ endReason = "none"
    /\ obs = NoObs

\* knob_controller has not been spawned: the encoder rests at its pull-ups
\* and the task's locals do not exist (shown as zeros).
KnobUnspawned ==
    /\ knobPc = "unspawned"
    /\ pin1 = 1
    /\ pin2 = 1
    /\ unsampled = 0
    /\ in1_history = 0
    /\ in2_history = 0
    /\ rot = "none"
    /\ samples = <<>>
    /\ turn = "none"

\* main has reached run_bluetooth(..).await (main.rs:72).
Init ==
    /\ BleInit
    /\ KnobUnspawned
    /\ reportLog = <<>>

\* ------------------------------------------------------------------ helpers

\* AdStructure::encode_slice of Flags, CompleteLocalName(name) and
\* ServiceUuids16 of two 16-bit UUIDs: each structure is length, type, data.
AdvEncodedLen == (2 + 1) + (2 + NameLen) + (2 + 2 * 2)
AdvEncodeOk == AdvEncodedLen <= AdvDataCap

\* Variant of Halt: the error is recorded and the advertise loop starts over.
Halt_Retries(why) ==
    /\ mainPc' = "loop"
    /\ diag' = why
    /\ gattPc' = "idle"
    /\ customPc' = "idle"
    /\ pendingReply' = NoReply
    /\ obs' = NoObs
    /\ UNCHANGED <<bond_info, bondable, link, secLevel, events, toggle, sendLog,
                   endReason>>

\* A panic (panic_probe): the device halts with a diagnostic and no task is
\* polled any more.  Nothing is unwound: no value is dropped and the link is
\* not closed.  The caller says how many connections are alive at the panic.
Halt(why) ==
    /\ mainPc' = "halted"
    /\ diag' = why
    /\ gattPc' = "idle"
    /\ customPc' = "idle"
    /\ pendingReply' = NoReply
    /\ obs' = NoObs
    /\ UNCHANGED <<bond_info, bondable, link, secLevel, events, toggle, sendLog,
                   endReason>>

\* Variant of SessionEnd: the notifier is not dropped when the session ends.
SessionEnd_KeepsNotifier(reason) ==
    /\ mainPc' = "loop"
    /\ liveConns' = liveConns - 1
    /\ gattPc' = "idle"
    /\ customPc' = customPc
    /\ pendingReply' = NoReply
    /\ link' = "none"
    /\ events' = <<>>
    /\ secLevel' = "NoEncryption"
    /\ bondable' = FALSE
    /\ toggle' = TRUE
    /\ endReason' = reason
    /\ UNCHANGED diag

\* Variant of SessionEnd: the connection is not released.
SessionEnd_LeaksConnection(reason) ==
    /\ mainPc' = "loop"
    /\ liveConns' = liveConns
    /\ gattPc' = "idle"
    /\ customPc' = "idle"
    /\ pendingReply' = NoReply
    /\ link' = "none"
    /\ events' = <<>>
    /\ secLevel' = "NoEncryption"
    /\ bondable' = FALSE
    /\ toggle' = TRUE
    /\ endReason' = reason
    /\ UNCHANGED diag

\* select(a, b) returns because one of the two tasks completed: both futures
\* are dropped, conn goes out of scope and the loop starts over.
SessionEnd(reason) ==
    /\ mainPc' = "loop"
    /\ liveConns' = liveConns - 1
    /\ gattPc' = "idle"
    /\ customPc' = "idle"
    /\ pendingReply' = NoReply
    /\ link' = "none"
    /\ events' = <<>>
    /\ secLevel' = "NoEncryption"
    /\ bondable' = FALSE
    /\ toggle' = TRUE
    /\ endReason' = reason
    /\ UNCHANGED diag

\* Variant of BondableFlag: every connection is bondable.
BondableFlag_Always(slot) == TRUE

\* conn.raw().set_bondable(bond_info.is_none())
BondableFlag(slot) == slot = NoBond

\* Variant of NextKey: toggle is ignored.
NextKey_AlwaysVolUp(t) == "VolUp"

\* custom_task: the key of the next press
NextKey(t) == IF t THEN "VolUp" ELSE "VolDown"

\* ------------------------------------------------------------------ advertise

\* Top of the loop: advertise() encodes the payload and submits it.
AdvertiseCall ==
    /\ UNCHANGED auxVars
    /\ mainPc = "loop"
    /\ IF AdvEncodeOk
         THEN /\ mainPc' = "advertising"
              /\ obs' = NoObs
              /\ UNCHANGED <<diag, bond_info, liveConns, bondable, link, secLevel,
                             events, gattPc, pendingReply, customPc, toggle,
                             sendLog, endReason>>
         ELSE Halt("adv") /\ UNCHANGED liveConns

\* peripheral.advertise(..).await completes.
AdvertiseStarted ==
    /\ UNCHANGED auxVars
    /\ mainPc = "advertising"
    /\ \E ok \in BOOLEAN :
         IF ok
           THEN /\ mainPc' = "accepting"
                /\ obs' = NoObs
                /\ UNCHANGED <<diag, bond_info, liveConns, bondable, link, secLevel,
                               events, gattPc, pendingReply, customPc, toggle,
                               sendLog, endReason>>
           ELSE Halt("adv") /\ UNCHANGED liveConns

\* advertiser.accept().await?.with_attribute_server(server)? fails.
AcceptFailed ==
    /\ UNCHANGED auxVars
    /\ mainPc = "accepting"
    /\ Halt("adv")
    /\ UNCHANGED liveConns

\* advertise() returns Ok(conn) but set_bondable(..).unwrap() panics: the
\* GattConnection exists at the panic and is never dropped.
SetBondableFailed ==
    /\ UNCHANGED auxVars
    /\ mainPc = "accepting"
    /\ link # "none"
    /\ liveConns' = liveConns + 1
    /\ Halt("unwrap")

\* advertise() returns Ok(conn) for the link the host engine established: the
\* connection is marked, both tasks are created and select polls them,
\* gatt_events_task first.  With no event surfaced yet conn.next() is pending
\* and custom_task is polled: it issues the first notify.  With an event
\* already surfaced gatt_events_task goes on with it and custom_task is not
\* polled yet.
Accept ==
    /\ UNCHANGED auxVars
    /\ mainPc = "accepting"
    /\ link # "none"
    /\ mainPc' = "session"
    /\ liveConns' = liveConns + 1
    /\ bondable' = BondableFlag(bond_info)
    /\ gattPc' = "next"
    /\ pendingReply' = NoReply
    /\ toggle' = TRUE
    /\ IF events = <<>>
         THEN /\ customPc' = "notify_key"
              /\ sendLog' = <<[report |-> as_report(NextKey(TRUE)), status |-> "pending"]>>
         ELSE /\ customPc' = "unpolled"
              /\ sendLog' = <<>>
    /\ obs' = NoObs
    /\ UNCHANGED <<diag, bond_info, link, secLevel, events, endReason>>

\* ble_task: runner.run() returns an error.
BleTaskError ==
    /\ UNCHANGED auxVars
    /\ mainPc # "halted"
    /\ Halt("ble_task")
    /\ UNCHANGED liveConns

\* ------------------------------------------------------------------ host engine

\* The host engine runs inside ble_task: it is polled while the device has
\* not halted, and never in the middle of the poll in which select polls
\* the two tasks of a session for the first time.
HostRuns == mainPc # "halted" /\ customPc # "unpolled"

\* A central connected: the link exists in the host engine before
\* advertiser.accept() hands it to the loop.
HostConnect ==
    /\ UNCHANGED auxVars
    /\ HostRuns
    /\ mainPc = "accepting"
    /\ link = "none"
    /\ link' = "open"
    /\ secLevel' = "NoEncryption"
    /\ obs' = NoObs
    /\ UNCHANGED <<mainPc, diag, bond_info, liveConns, bondable, events,
                   gattPc, pendingReply, customPc, toggle, sendLog, endReason>>

\* The host engine surfaces an event of the link (also before the first
\* conn.next() of its connection).
HostSurface ==
    /\ UNCHANGED auxVars
    /\ HostRuns
    /\ link = "open"
    /\ Len(events) < MaxQueue
    /\ \E e \in HostEvents : events' = Append(events, e)
    /\ obs' = NoObs
    /\ UNCHANGED <<mainPc, diag, bond_info, liveConns, bondable, link, secLevel,
                   gattPc, pendingReply, customPc, toggle, sendLog, endReason>>

HostDisconnect ==
    /\ UNCHANGED auxVars
    /\ HostRuns
    /\ link = "open"
    /\ Len(events) < MaxQueue
    /\ link' = "closed"
    /\ events' = Append(events, DisconnectedEvent)
    /\ obs' = NoObs
    /\ UNCHANGED <<mainPc, diag, bond_info, liveConns, bondable, secLevel,
                   gattPc, pendingReply, customPc, toggle, sendLog, endReason>>

HostSecurity ==
    /\ UNCHANGED auxVars
    /\ HostRuns
    /\ link = "open"
    /\ \E l \in SecurityLevels \ {secLevel} : secLevel' = l
    /\ obs' = NoObs
    /\ UNCHANGED <<mainPc, diag, bond_info, liveConns, bondable, link, events,
                   gattPc, pendingReply, customPc, toggle, sendLog, endReason>>

\* ------------------------------------------------------------------ gatt_events_task

\* Variant of ConnNext: the newest surfaced event is returned.
ConnNext_Newest(queue) == queue[Len(queue)]

\* The event conn.next() returns: the oldest one surfaced and not yet taken.
ConnNext(queue) == Head(queue)

\* Variant of Takes: the next event is taken while a reply is still being sent.
Takes_WhileSending(t) ==
    /\ gattPc \in {"next", "sending"}
    /\ events # <<>>
    /\ ConnNext(events).type = t

\* conn.next().await returns the oldest surfaced event of type t.
Takes(t) ==
    /\ gattPc = "next"
    /\ events # <<>>
    /\ ConnNext(events).type = t

\* What a step of the dispatcher reports: the event, the outcome of the
\* fallible call made for it, the result chosen and whether the reply was built.
EventObs(e, call, result, built) ==
    [what |-> "event", ev |-> e, call |-> call, result |-> result, built |-> built]

\* select(a, b) polls custom_task for the first time once gatt_events_task
\* is pending in that poll; custom_task then issues its first notify.
FirstPollOfCustom(gattPending) ==
    IF customPc = "unpolled" /\ gattPending
      THEN /\ customPc' = "notify_key"
           /\ sendLog' = <<[report |-> as_report(NextKey(toggle)), status |-> "pending"]>>
      ELSE UNCHANGED <<customPc, sendLog>>

\* The loop of gatt_events_task goes on to the next conn.next().await, which
\* is pending when no further event has been surfaced.
StayActive ==
    /\ events' = Tail(events)
    /\ FirstPollOfCustom(Tail(events) = <<>>)
    /\ UNCHANGED <<mainPc, diag, liveConns, bondable, link, secLevel, gattPc,
                   pendingReply, toggle, endReason>>

\* Variant of OnDisconnected: the event is consumed without breaking the loop.
OnDisconnected_NoBreak ==
    /\ UNCHANGED auxVars
    /\ Takes("Disconnected")
    /\ StayActive
    /\ obs' = EventObs(ConnNext(events), "none", "n/a", "n/a")
    /\ UNCHANGED bond_info

\* GattConnectionEvent::Disconnected { reason } => break reason
OnDisconnected ==
    /\ UNCHANGED auxVars
    /\ Takes("Disconnected")
    /\ SessionEnd("disconnected")
    /\ obs' = EventObs(ConnNext(events), "none", "n/a", "n/a")
    /\ UNCHANGED <<bond_info, sendLog>>

\* Variant of OnInformational: a failed pairing ends the dispatcher.
OnInformational_PairingFailedEnds ==
    /\ UNCHANGED auxVars
    /\ \E t \in {"PassKeyDisplay", "PassKeyInput", "PairingFailed", "Unknown"} : Takes(t)
    /\ obs' = EventObs(ConnNext(events), "none", "n/a", "n/a")
    /\ IF ConnNext(events).type = "PairingFailed"
         THEN /\ SessionEnd("gatt_error")
              /\ UNCHANGED <<bond_info, sendLog>>
         ELSE /\ StayActive
              /\ UNCHANGED bond_info

\* Variant of OnInformational: a failed pairing clears the bond slot.
OnInformational_PairingFailedClearsBond ==
    /\ UNCHANGED auxVars
    /\ \E t \in {"PassKeyDisplay", "PassKeyInput", "PairingFailed", "Unknown"} : Takes(t)
    /\ StayActive
    /\ obs' = EventObs(ConnNext(events), "none", "n/a", "n/a")
    /\ bond_info' = IF ConnNext(events).type = "PairingFailed" THEN NoBond ELSE bond_info

\* PassKeyDisplay, PassKeyInput, PairingFailed and `_ => {}`: logged or ignored.
OnInformational ==
    /\ UNCHANGED auxVars
    /\ \E t \in {"PassKeyDisplay", "PassKeyInput", "PairingFailed", "Unknown"} : Takes(t)
    /\ StayActive
    /\ obs' = EventObs(ConnNext(events), "none", "n/a", "n/a")
    /\ UNCHANGED bond_info

\* GattConnectionEvent::PassKeyConfirm(_) => conn.pass_key_confirm()?
OnPassKeyConfirm ==
    /\ UNCHANGED auxVars
    /\ Takes("PassKeyConfirm")
    /\ \E ok \in BOOLEAN :
         IF ok
           THEN /\ StayActive
                /\ obs' = EventObs(ConnNext(events), "ok", "n/a", "n/a")
                /\ UNCHANGED bond_info
           ELSE /\ SessionEnd("gatt_error")
                /\ obs' = EventObs(ConnNext(events), "err", "n/a", "n/a")
                /\ UNCHANGED <<bond_info, sendLog>>

\* Variant of OnPairingComplete: the connection's bondable flag follows the slot.
OnPairingComplete_UpdatesBondable ==
    /\ UNCHANGED auxVars
    /\ gattPc = "next"
    /\ events # <<>>
    /\ ConnNext(events).type = "PairingComplete"
    /\ bond_info' = ConnNext(events).bond
    /\ bondable' = (ConnNext(events).bond = NoBond)
    /\ events' = Tail(events)
    /\ obs' = EventObs(ConnNext(events), "none", "n/a", "n/a")
    /\ FirstPollOfCustom(Tail(events) = <<>>)
    /\ UNCHANGED <<mainPc, diag, liveConns, link, secLevel, gattPc,
                   pendingReply, toggle, endReason>>

\* The value stored by `*bond_info = bond`.
StoredBond(slot, bond) == bond

\* GattConnectionEvent::PairingComplete { security_level, bond }
OnPairingComplete ==
    /\ UNCHANGED auxVars
    /\ Takes("PairingComplete")
    /\ bond_info' = StoredBond(bond_info, ConnNext(events).bond)
    /\ StayActive
    /\ obs' = EventObs(ConnNext(events), "none", "n/a", "n/a")

\* Variant of GateResult: only writes are gated, reads are always accepted.
GateResult_WritesOnly(kind, handle, level) ==
    IF kind = "Write"
      THEN IF authenticated(level) THEN "none" ELSE INSUFFICIENT_AUTHENTICATION
      ELSE "none"

\* handle_gatt_event: the result of the match on the event, given the
\* security level read for a Read or a Write ("none" is Rust's None).
GateResult(kind, handle, level) ==
    IF kind \in {"Read", "Write"}
      THEN IF authenticated(level) THEN "none" ELSE INSUFFICIENT_AUTHENTICATION
      ELSE "none"

\* handle_gatt_event: event.reject(code) for Some(code), event.accept() for None.
ReplyFor(result) ==
    IF result # "none"
      THEN [decision |-> "reject", code |-> result]
      ELSE [decision |-> "accept", code |-> "none"]

\* GattConnectionEvent::Gatt { event } => handle_gatt_event(..).await?
\* secOk: conn.raw().security_level() returned Ok (only called for Read/Write);
\* built: event.reject / event.accept returned Ok(reply);
\* sendPending: reply.send() did not complete at once (it matters only in the
\* first poll of the session, where custom_task is polled once this task is
\* pending).
OnGatt ==
    /\ UNCHANGED auxVars
    /\ Takes("Gatt")
    /\ LET e == ConnNext(events)
           needsLevel == e.kind \in {"Read", "Write"}
       IN \E secOk \in (IF needsLevel THEN BOOLEAN ELSE {TRUE}), built \in BOOLEAN,
             sendPending \in (IF customPc = "unpolled" THEN BOOLEAN ELSE {TRUE}) :
            LET call == IF needsLevel THEN (IF secOk THEN "ok" ELSE "err") ELSE "none"
                result == GateResult(e.kind, e.handle, secLevel)
            IN IF ~secOk
                 THEN \* the `?` returns the error out of both functions
                      /\ built /\ sendPending
                      /\ SessionEnd("gatt_error")
                      /\ obs' = EventObs(e, call, "n/a", "n/a")
                      /\ UNCHANGED <<bond_info, sendLog>>
                 ELSE IF built
                   THEN \* Ok(reply) => reply.send().await
                        /\ events' = Tail(events)
                        /\ gattPc' = "sending"
                        /\ pendingReply' = ReplyFor(result)
                        /\ obs' = EventObs(e, call, result, "yes")
                        /\ FirstPollOfCustom(sendPending)
                        /\ UNCHANGED <<mainPc, diag, bond_info, liveConns, bondable,
                                       link, secLevel, toggle, endReason>>
                   ELSE \* Err(e) => warn!(..): nothing is sent
                        /\ sendPending
                        /\ StayActive
                        /\ obs' = EventObs(e, call, result, "no")
                        /\ UNCHANGED bond_info

\* reply.send().await completes: the response is on the link, and the loop
\* goes on to the next conn.next().await.
ReplySent ==
    /\ UNCHANGED auxVars
    /\ gattPc = "sending"
    /\ gattPc' = "next"
    /\ pendingReply' = NoReply
    /\ obs' = [what |-> "reply", reply |-> pendingReply]
    /\ FirstPollOfCustom(events = <<>>)
    /\ UNCHANGED <<mainPc, diag, bond_info, liveConns, bondable, link, secLevel,
                   events, toggle, endReason>>

GattTaskStep ==
    \/ OnDisconnected
    \/ OnInformational
    \/ OnPassKeyConfirm
    \/ OnPairingComplete
    \/ OnGatt
    \/ ReplySent

\* ------------------------------------------------------------------ custom_task

\* Outcomes of report.notify(..).await: Ok or Err, as the host engine decides
\* (it may still report Ok after Disconnected was surfaced).
NotifyOutcomes == BOOLEAN

SetStatus(log, i, st) == [log EXCEPT ![i].status = st]

\* Variant of AfterKeyNotify: the error of the first notify is ignored.
AfterKeyNotify_IgnoresError(ok) == "delay50"

\* After the key's notify: `?` returns the error, otherwise the 50 ms timer.
AfterKeyNotify(ok) == IF ok THEN "delay50" ELSE "return_err"

\* report.notify(conn, &self.as_report()).await? completes.
NotifyKeyDone ==
    /\ UNCHANGED auxVars
    /\ customPc = "notify_key"
    /\ \E ok \in NotifyOutcomes :
         /\ sendLog' = SetStatus(sendLog, 1, IF ok THEN "ok" ELSE "err")
         /\ obs' = NoObs
         /\ IF AfterKeyNotify(ok) = "delay50"
              THEN /\ customPc' = "delay50"
                   /\ UNCHANGED <<mainPc, diag, bond_info, liveConns, bondable, link,
                                  secLevel, events, gattPc, pendingReply, toggle,
                                  endReason>>
              ELSE \* send returns Err, custom_task breaks out of its loop
                   /\ SessionEnd("notify_failed")
                   /\ UNCHANGED bond_info

\* Timer::after_millis(50).await elapses; the None report is issued.
Delay50Elapsed ==
    /\ UNCHANGED auxVars
    /\ customPc = "delay50"
    /\ customPc' = "notify_none"
    /\ sendLog' = Append(sendLog, [report |-> as_report("None"), status |-> "pending"])
    /\ obs' = NoObs
    /\ UNCHANGED <<mainPc, diag, bond_info, liveConns, bondable, link, secLevel,
                   events, gattPc, pendingReply, toggle, endReason>>

\* report.notify(conn, &KeyPressed::None.as_report()).await completes.
NotifyNoneDone ==
    /\ UNCHANGED auxVars
    /\ customPc = "notify_none"
    /\ \E ok \in NotifyOutcomes :
         /\ sendLog' = SetStatus(sendLog, 2, IF ok THEN "ok" ELSE "err")
         /\ obs' = NoObs
         /\ IF ok
              THEN \* toggle = !toggle; Timer::after_secs(2).await
                   /\ customPc' = "delay2s"
                   /\ toggle' = ~toggle
                   /\ UNCHANGED <<mainPc, diag, bond_info, liveConns, bondable, link,
                                  secLevel, events, gattPc, pendingReply, endReason>>
              ELSE /\ SessionEnd("notify_failed")
                   /\ UNCHANGED bond_info

\* Timer::after_secs(2).await elapses; the next key.send starts.
Delay2sElapsed ==
    /\ UNCHANGED auxVars
    /\ customPc = "delay2s"
    /\ customPc' = "notify_key"
    /\ sendLog' = <<[report |-> as_report(NextKey(toggle)), status |-> "pending"]>>
    /\ obs' = NoObs
    /\ UNCHANGED <<mainPc, diag, bond_info, liveConns, bondable, link, secLevel,
                   events, gattPc, pendingReply, toggle, endReason>>

CustomTaskStep ==
    \/ NotifyKeyDone
    \/ Delay50Elapsed
    \/ NotifyNoneDone
    \/ Delay2sElapsed

\* ------------------------------------------------------------------ knob_controller

\* main.rs:25-33
MASK == 7
LEFT_P1 == 4
LEFT_P2 == 6
LEFT_P1_INV == 3
LEFT_P2_INV == 1
RIGHT_P1 == 6
RIGHT_P2 == 4
RIGHT_P1_INV == 1
RIGHT_P2_INV == 3

\* Bound of the model: level changes that may pile up before the decoder
\* task gets to read the levels.
MaxUnsampled == 2

Levels == {0, 1}

\* a & b on unsigned integers
RECURSIVE BitAnd(_, _)
BitAnd(a, b) ==
    IF a = 0 \/ b = 0
      THEN 0
      ELSE ((a % 2) * (b % 2)) + 2 * BitAnd(a \div 2, b \div 2)

\* history <<= 1; history |= level   (u8: the top bit is shifted out)
ShiftIn(history, level) == ((history * 2) % 256) + level

\* Variant of Pattern: the history is compared unmasked.
Pattern_NoMask(history) == history

\* history & MASK
Pattern(history) == BitAnd(history, MASK)

\* Variant of Classify: the inverted patterns are attributed to the other
\* direction.
Classify_InvertedSwapped(in1_pattern, in2_pattern) ==
    IF \/ in1_pattern = LEFT_P1 /\ in2_pattern = LEFT_P2
       \/ in1_pattern = RIGHT_P1_INV /\ in2_pattern = RIGHT_P2_INV
      THEN "left"
      ELSE IF \/ in1_pattern = RIGHT_P1 /\ in2_pattern = RIGHT_P2
              \/ in1_pattern = LEFT_P1_INV /\ in2_pattern = LEFT_P2_INV
        THEN "right"
        ELSE "none"

\* The if / else if of knob_controller: "Rot left", "Rot right" or nothing.
Classify(in1_pattern, in2_pattern) ==
    IF \/ in1_pattern = LEFT_P1 /\ in2_pattern = LEFT_P2
       \/ in1_pattern = LEFT_P1_INV /\ in2_pattern = LEFT_P2_INV
      THEN "left"
      ELSE IF \/ in1_pattern = RIGHT_P1 /\ in2_pattern = RIGHT_P2
              \/ in1_pattern = RIGHT_P1_INV /\ in2_pattern = RIGHT_P2_INV
        THEN "right"
        ELSE "none"

\* The gray-code successor of a level pair in the left cycle
\* (1,1) -> (0,1) -> (0,0) -> (1,0) -> (1,1), and in the right cycle.
LeftNext(pair) ==
    IF pair[1] = pair[2] THEN <<1 - pair[1], pair[2]>> ELSE <<pair[1], 1 - pair[2]>>
RightNext(pair) ==
    IF pair[1] = pair[2] THEN <<pair[1], 1 - pair[2]>> ELSE <<1 - pair[1], pair[2]>>

\* The direction of all the samples so far, once one more pair is read.
TurnAfter(t, prev, cur) ==
    LET d == IF cur = LeftNext(prev) THEN "left"
             ELSE IF cur = RightNext(prev) THEN "right"
             ELSE "invalid"
    IN IF t = "none" \/ t = d THEN d ELSE "invalid"

\* The latest three of the level pairs read.
LastThree(seq) == IF Len(seq) > 3 THEN Tail(seq) ELSE seq

\* The first lines of knob_controller: both histories start as the level read.
KnobStarts(l1, l2) ==
    /\ knobPc = "running"
    /\ pin1 = l1
    /\ pin2 = l2
    /\ unsampled = 0
    /\ in1_history = l1
    /\ in2_history = l2
    /\ rot = "none"
    /\ samples = <<<<l1, l2>>>>
    /\ turn = "none"

\* main.rs:74-76: reached when run_bluetooth(..).await has returned, which no
\* step of run_bluetooth brings about (its join of two endless loops).
RunBluetoothReturned == mainPc = "returned"
SpawnKnobController ==
    /\ RunBluetoothReturned
    /\ knobPc = "unspawned"
    /\ knobPc' = "running"
    /\ in1_history' = pin1
    /\ in2_history' = pin2
    /\ samples' = <<<<pin1, pin2>>>>
    /\ unsampled' = 0
    /\ UNCHANGED <<bleVars, pin1, pin2, rot, turn, reportLog>>

\* The encoder: a debounced level change on channel 1.
Channel1Changes ==
    /\ unsampled < MaxUnsampled
    /\ pin1' = 1 - pin1
    /\ unsampled' = unsampled + 1
    /\ UNCHANGED <<bleVars, knobPc, pin2, in1_history, in2_history, rot, samples,
                   turn, reportLog>>

\* The encoder: a debounced level change on channel 2.
Channel2Changes ==
    /\ unsampled < MaxUnsampled
    /\ pin2' = 1 - pin2
    /\ unsampled' = unsampled + 1
    /\ UNCHANGED <<bleVars, knobPc, pin1, in1_history, in2_history, rot, samples,
                   turn, reportLog>>

\* One turn of the loop of knob_controller: select(..) has returned because
\* of an edge, both levels are read and shifted in, the patterns are compared.
KnobStep ==
    /\ knobPc = "running"
    /\ unsampled > 0
    /\ in1_history' = ShiftIn(in1_history, pin1)
    /\ in2_history' = ShiftIn(in2_history, pin2)
    /\ rot' = Classify(Pattern(in1_history'), Pattern(in2_history'))
    /\ samples' = LastThree(Append(samples, <<pin1, pin2>>))
    /\ turn' = TurnAfter(turn, samples[Len(samples)], <<pin1, pin2>>)
    /\ unsampled' = 0
    /\ UNCHANGED <<bleVars, knobPc, pin1, pin2, reportLog>>

\* ------------------------------------------------------------------ as_report calls

\* Bound of the model: calls of as_report that are recorded.
MaxCalls == 4

\* Some code calls key.as_report() and keeps the result.
CallAsReport ==
    /\ Len(reportLog) < MaxCalls
    /\ \E key \in KeyPressedValues :
         reportLog' = Append(reportLog, [key |-> key, report |-> as_report(key)])
    /\ UNCHANGED <<bleVars, knobVars>>

\* ------------------------------------------------------------------ specification

Next ==
    \/ AdvertiseCall
    \/ AdvertiseStarted
    \/ AcceptFailed
    \/ SetBondableFailed
    \/ Accept
    \/ BleTaskError
    \/ HostConnect
    \/ HostSurface
    \/ HostDisconnect
    \/ HostSecurity
    \/ OnDisconnected
    \/ OnInformational
    \/ OnPassKeyConfirm
    \/ OnPairingComplete
    \/ OnGatt
    \/ ReplySent
    \/ NotifyKeyDone
    \/ Delay50Elapsed
    \/ NotifyNoneDone
    \/ Delay2sElapsed

Spec == Init /\ [][Next]_vars

\* The dispatcher and the loop are polled whenever they can make progress
\* (the loop: at its top, and when advertiser.accept() has a link to return).
LiveSpec ==
    /\ Init
    /\ [][Next]_vars
    /\ WF_vars(GattTaskStep)
    /\ WF_vars(AdvertiseCall)
    /\ WF_vars(Accept)

\* The decoder task on its own, as it runs once spawned, for every pair of
\* start-up levels; the BLE side does not move.
KnobInit ==
    /\ BleInit
    /\ reportLog = <<>>
    /\ \E l1 \in Levels, l2 \in Levels : KnobStarts(l1, l2)

KnobNext ==
    \/ Channel1Changes
    \/ Channel2Changes
    \/ KnobStep

KnobSpec == KnobInit /\ [][KnobNext]_vars

\* The whole device from main's call of run_bluetooth on: the BLE side and
\* the encoder.  SpawnKnobController is no step of it: its guard never holds.
BootNext ==
    \/ Next
    \/ Channel1Changes
    \/ Channel2Changes

BootSpec == Init /\ [][BootNext]_vars

\* Calls of the pure function as_report on every key.
ReportSpec == Init /\ [][CallAsReport]_vars

\* ------------------------------------------------------------------ properties

Active == gattPc \in {"next", "sending"}
IsEventObs == obs.what = "event"
IsRequestObs == IsEventObs /\ obs.ev.type = "Gatt" /\ obs.ev.kind \in {"Read", "Write"}

\* C1: for a Read or Write whose security level was read, the reply chosen is a
\* reject with INSUFFICIENT_AUTHENTICATION exactly when the connection's level
\* at that moment is not authenticated, an accept otherwise, whatever the
\* handle and the kind of request.
C1_GateDependsOnlyOnLevel ==
    (IsRequestObs /\ obs.call = "ok") =>
        /\ (secLevel # "EncryptedAuthenticated") <=> (obs.result = INSUFFICIENT_AUTHENTICATION)
        /\ (secLevel = "EncryptedAuthenticated") <=> (obs.result = "none")
        /\ obs.built = "yes" =>
             pendingReply = IF secLevel = "EncryptedAuthenticated"
                              THEN [decision |-> "accept", code |-> "none"]
                              ELSE [decision |-> "reject", code |-> INSUFFICIENT_AUTHENTICATION]

\* A read of the battery level is accepted: the level was raised after the
\* connection was accepted (every connection starts at NoEncryption).
C1_Witness_ReadAcceptedAfterPairing ==
    /\ IsRequestObs
    /\ obs.ev.kind = "Read"
    /\ obs.ev.handle = "level"
    /\ obs.call = "ok"
    /\ obs.result = "none"
    /\ pendingReply.decision = "accept"

\* C2: every Read or Write taken by the dispatcher gets exactly one reply
\* that is actually sent: after the step that handles it a reply is being sent.
C2_EveryRequestReplied ==
    IsRequestObs =>
        /\ gattPc = "sending"
        /\ pendingReply.decision \in {"accept", "reject"}

\* C3: the step that accepts a connection sets the bondable flag to "the bond
\* slot is empty", and only then do the two tasks of the session exist (the
\* notifier polled already, or not yet when an event was waiting).
C3_BondableIffNoBond ==
    [][(mainPc = "accepting" /\ mainPc' = "session") =>
          /\ bondable' = (bond_info = NoBond)
          /\ bond_info' = bond_info
          /\ gattPc = "idle" /\ customPc = "idle"
          /\ gattPc' = "next" /\ customPc' \in {"notify_key", "unpolled"}]_vars

\* A later connection, accepted while a bond exists, is not bondable.
C3_Witness_LaterConnectionNotBondable ==
    /\ mainPc = "session"
    /\ endReason # "none"
    /\ bond_info # NoBond
    /\ ~bondable
    /\ customPc = "notify_key"
    /\ toggle
    /\ events = <<>>

\* C4: once the bond slot holds bond material it never becomes empty again.
C4_BondNeverCleared ==
    [][bond_info # NoBond => bond_info' # NoBond]_vars

\* C5: when either task of a session completes, both tasks are gone, the
\* connection's events are not handled any more, the loop is at its top, and
\* from there the only step of the loop is a new advertise call; the device
\* halts during a session only by the panic of ble_task.
C5_EitherTaskEndsSession ==
    [][/\ (mainPc = "session" /\ (gattPc' = "idle" \/ customPc' = "idle")) =>
             \/ /\ mainPc' = "loop"
                /\ gattPc' = "idle" /\ customPc' = "idle"
                /\ events' = <<>> /\ link' = "none"
                /\ diag' = "none"
             \/ mainPc' = "halted" /\ diag' = "ble_task"
       /\ (mainPc = "loop") =>
             \/ mainPc' = "advertising" /\ gattPc' = "idle" /\ customPc' = "idle"
             \/ mainPc' = "halted"]_vars

\* A failed notification ended a session and the loop called advertise again.
C5_Witness_AdvertiseAfterNotifyFailure ==
    /\ mainPc = "advertising"
    /\ endReason = "notify_failed"
    /\ diag = "none"

\* C6: a surfaced Disconnected event leads to a new advertisement cycle
\* (or to the halt of the device by a fatal error of the host engine).
C6_DisconnectLeadsToAdvertise ==
    (link = "closed") ~> (mainPc = "advertising" \/ mainPc = "halted")

\* The link closed while the notifier was inside the 50 ms gap.
C6_Witness_DisconnectMidDelay ==
    /\ link = "closed"
    /\ customPc = "delay50"
    /\ mainPc = "session"

\* C7: at most one connection is alive; none is while the loop advertises or
\* accepts (the host engine has no link before the loop waits in accept), and
\* the tasks of a session run only during that session.
C7_OneConnectionSequentialSessions ==
    /\ liveConns <= CONNECTIONS_MAX
    /\ mainPc \in {"loop", "advertising", "accepting"} =>
          liveConns = 0 /\ gattPc = "idle" /\ customPc = "idle"
    /\ mainPc \in {"loop", "advertising"} => link = "none" /\ events = <<>>
    /\ mainPc = "session" => liveConns = 1
    /\ (gattPc # "idle" \/ customPc # "idle") => mainPc = "session"

\* A second connection is being served after the first session was ended by
\* the notifier.
C7_Witness_SecondSession ==
    /\ mainPc = "session"
    /\ endReason = "notify_failed"
    /\ liveConns = 1
    /\ gattPc = "sending"

\* C8 as claimed: an event other than Disconnected leaves the dispatcher Active.
C8_OnlyDisconnectLeavesActive ==
    (IsEventObs /\ obs.ev.type # "Disconnected") => Active

\* C8 as amended: the dispatcher leaves Active exactly by a Disconnected event
\* or by the error of pass_key_confirm (PassKeyConfirm) or of security_level
\* (Gatt Read or Write); every other event and outcome leaves it Active.
C8_LeavesActiveByDisconnectOrError ==
    IsEventObs =>
        /\ ~Active <=> (obs.ev.type = "Disconnected" \/ obs.call = "err")
        /\ obs.call = "err" =>
             obs.ev.type = "PassKeyConfirm" \/ IsRequestObs
        /\ Active => mainPc = "session"

\* pass_key_confirm failed and the dispatcher returned.
C8_Witness_PassKeyConfirmError ==
    /\ IsEventObs
    /\ obs.ev.type = "PassKeyConfirm"
    /\ obs.call = "err"
    /\ gattPc = "idle"
    /\ endReason = "gatt_error"

\* C9: the step that rejects a request, the step that completes sending the
\* reject, and the step that handles PairingFailed leave the session running
\* on the same connection with the bond slot unchanged, and the dispatcher
\* ready for (or on its way to) the next event.
C9_RecoverableErrorsKeepSession ==
    [][/\ (obs'.what = "event" /\ obs'.ev.type = "PairingFailed") =>
             /\ gattPc' = "next" /\ mainPc' = "session"
             /\ bond_info' = bond_info /\ link' = link /\ liveConns' = liveConns
       /\ (obs'.what = "event" /\ obs'.result = INSUFFICIENT_AUTHENTICATION) =>
             /\ Active' /\ mainPc' = "session"
             /\ bond_info' = bond_info /\ link' = link /\ liveConns' = liveConns
       /\ (obs'.what = "reply" /\ obs'.reply.decision = "reject") =>
             /\ gattPc' = "next" /\ mainPc' = "session"
             /\ bond_info' = bond_info /\ link' = link /\ liveConns' = liveConns]_vars

\* A reject was sent on an open link that holds a bond, and a later event is
\* waiting to be taken.
C9_Witness_RejectThenNextEvent ==
    /\ obs.what = "reply"
    /\ obs.reply.decision = "reject"
    /\ gattPc = "next"
    /\ link = "open"
    /\ events # <<>>
    /\ Head(events).type = "PairingComplete"
    /\ bond_info # NoBond

\* Shape of the log of a call of KeyPressed::send (used by C10): at most two
\* notifications, the key's
\* report first, the report of None second, issued only by the 50 ms timer
\* elapsing after the key's notify succeeded; send returns Ok only with both
\* issued and successful, and a failed first notify is the only one of its call.
C10_SendLogShape ==
    /\ Len(sendLog) <= 2
    /\ Len(sendLog) >= 1 =>
          sendLog[1].report \in {as_report("VolUp"), as_report("VolDown")}
    /\ Len(sendLog) = 2 =>
          /\ sendLog[1].status = "ok"
          /\ sendLog[2].report = as_report("None")
    /\ customPc = "delay50" => Len(sendLog) = 1 /\ sendLog[1].status = "ok"
    /\ customPc = "delay2s" =>
          Len(sendLog) = 2 /\ sendLog[1].status = "ok" /\ sendLog[2].status = "ok"

\* C10: the shape above holds in every state, and the second notification of
\* a call appears only in the step that ends the 50 ms wait.
C10_SendTwoNotificationsInOrder ==
    /\ []C10_SendLogShape
    /\ [][(Len(sendLog') = 2 /\ Len(sendLog) # 2) =>
             /\ customPc = "delay50" /\ customPc' = "notify_none"
             /\ Len(sendLog) = 1
             /\ sendLog'[1] = sendLog[1]]_vars

\* The second press of a session (VolDown) completed: key report, then None.
C10_Witness_SecondPressComplete ==
    /\ customPc = "delay2s"
    /\ sendLog = <<[report |-> as_report("VolDown"), status |-> "ok"],
                   [report |-> as_report("None"), status |-> "ok"]>>

\* ------------------------------------------------------------------ decoder properties

\* The canonical two-step transitions, as sampled (channel 1, channel 2) pairs.
LeftTransitions == {<<<<1, 1>>, <<0, 1>>, <<0, 0>>>>, <<<<0, 0>>, <<1, 0>>, <<1, 1>>>>}
RightTransitions == {<<<<1, 1>>, <<1, 0>>, <<0, 0>>>>, <<<<0, 0>>, <<0, 1>>, <<1, 1>>>>}
\* Their strict prefixes: the first two pairs.
TransitionPrefixes ==
    {<<t[1], t[2]>> : t \in LeftTransitions \cup RightTransitions}
LastTwo(seq) == <<seq[Len(seq) - 1], seq[Len(seq)]>>

\* C11: when the three latest samples are a canonical left transition the
\* step that read the third reported "Rot left" (and so not "Rot right"),
\* symmetrically for right, and the step that read the second pair of a
\* canonical transition reported nothing, whatever was sampled before.
C11_CanonicalTransitionsDecoded ==
    /\ (Len(samples) = 3 /\ samples \in LeftTransitions) => rot = "left"
    /\ (Len(samples) = 3 /\ samples \in RightTransitions) => rot = "right"
    /\ (Len(samples) >= 2 /\ LastTwo(samples) \in TransitionPrefixes) => rot = "none"

\* A left transition in the inverted polarity is reported after more than
\* eight samples, with bits already shifted out of both u8 histories.
C11_Witness_LeftAfterLongHistory ==
    /\ samples = <<<<0, 0>>, <<1, 0>>, <<1, 1>>>>
    /\ rot = "left"
    /\ in1_history >= 128
    /\ in2_history >= 128

\* C12: a step reports a rotation only if the three latest sampled pairs,
\* the start-up sample included, are one of the four recognised transitions.
C12_EventOnlyOnFullTransition ==
    rot # "none" =>
        /\ Len(samples) = 3
        /\ samples \in LeftTransitions \cup RightTransitions

\* C13: while the BLE loop advertises or serves a session, a level change of
\* the encoder finds the decoder task running (or about to be spawned), so
\* that the change is processed.
C13_DecoderRunsBesideBle ==
    (mainPc \in {"advertising", "accepting", "session"} /\ unsampled > 0) =>
        (knobPc = "running" \/ ENABLED SpawnKnobController)

\* ------------------------------------------------------------------ further properties

RECURSIVE BitCount(_)
BitCount(n) == IF n = 0 THEN 0 ELSE (n % 2) + BitCount(n \div 2)

VolUpReport == <<HID_REPORT_INPUT_ID, 1>>
VolDownReport == <<HID_REPORT_INPUT_ID, 2>>
MuteReport == <<HID_REPORT_INPUT_ID, 4>>
NoneReport == <<HID_REPORT_INPUT_ID, 0>>

\* C14: every call of as_report returns the two-byte report of the table,
\* with the report id first; two calls return the same report exactly when
\* their keys are the same; a key sets one bit and None sets none.
C14_AsReportTable ==
    /\ \A i \in 1..Len(reportLog) :
         LET e == reportLog[i]
         IN /\ Len(e.report) = 2
            /\ e.report[1] = HID_REPORT_INPUT_ID
            /\ e.key = "VolUp" => e.report = VolUpReport
            /\ e.key = "VolDown" => e.report = VolDownReport
            /\ e.key = "Mute" => e.report = MuteReport
            /\ e.key = "None" => e.report = NoneReport
            /\ BitCount(e.report[2]) = IF e.key = "None" THEN 0 ELSE 1
    /\ \A i, j \in 1..Len(reportLog) :
         (reportLog[i].key = reportLog[j].key) <=> (reportLog[i].report = reportLog[j].report)

\* as_report was called on each of the four keys.
C14_Witness_AllKeysReported ==
    {reportLog[i].key : i \in 1..Len(reportLog)} = KeyPressedValues

\* C15: no step is taken once the device has halted; a diagnostic is set
\* only by the step that halts; the advertise path (advertising, accepting)
\* is left only forward, to a session or to the halt (while it accepts, the
\* host engine may act on the new link), never back to a new
\* advertise call; a halted device has no task, and the halting step issues
\* no notification and takes no event.
C15_AdvertiseErrorHalts ==
    [][/\ mainPc # "halted"
       /\ diag' # diag => (diag = "none" /\ mainPc' = "halted")
       /\ mainPc = "advertising" => mainPc' \in {"accepting", "halted"}
       /\ mainPc = "accepting" => mainPc' \in {"accepting", "session", "halted"}
       /\ mainPc' = "halted" =>
            /\ diag' # "none"
            /\ gattPc' = "idle" /\ customPc' = "idle"
            /\ sendLog' = sendLog /\ events' = events]_vars

\* An advertise error halted the device after an earlier session.
C15_Witness_HaltedAfterSession ==
    /\ mainPc = "halted"
    /\ diag = "adv"
    /\ endReason = "disconnected"

\* C16: the bond slot changes only in the step that takes a PairingComplete
\* event, to the bond of that event; a step that ends a session (by either
\* task, at any suspension point of the other) leaves it unchanged; and the
\* bondable flag of a connection does not change during its session.
C16_BondSlotFrame ==
    [][/\ bond_info' # bond_info =>
            /\ gattPc = "next" /\ events # <<>>
            /\ Head(events).type = "PairingComplete"
            /\ bond_info' = Head(events).bond
            /\ mainPc = "session" /\ mainPc' = "session"
       /\ (mainPc = "session" /\ mainPc' # "session") => bond_info' = bond_info
       /\ (mainPc = "session" /\ mainPc' = "session") => bondable' = bondable]_vars

\* A bond was stored during a session whose connection is still bondable.
C16_Witness_BondStoredFlagKept ==
    /\ mainPc = "session"
    /\ bondable
    /\ bond_info # NoBond

\* C17: an event leaves the queue only at its head, one at a time, taken by
\* the dispatcher while it awaits conn.next(); while a reply is being sent
\* no event is taken and the reply does not change; the reply put on the
\* link is the one of the request handled last.
C17_EventsHandledOneAtATime ==
    [][/\ (Len(events') < Len(events) /\ mainPc' = "session") =>
            /\ gattPc = "next"
            /\ events' = Tail(events)
            /\ obs'.what = "event" /\ obs'.ev = Head(events)
       /\ (Len(events') >= Len(events) /\ mainPc' = "session" /\ mainPc = "session") =>
            SubSeq(events', 1, Len(events)) = events
       /\ (gattPc = "sending" /\ mainPc' = "session") =>
            \/ gattPc' = "sending" /\ pendingReply' = pendingReply
               /\ Len(events') >= Len(events)
            \/ gattPc' = "next" /\ events' = events
               /\ obs' = [what |-> "reply", reply |-> pendingReply]
       /\ obs'.what = "reply" => gattPc = "sending"]_vars

\* Two different requests waited together: the dispatcher has just taken the
\* older one, and the newer one waits in the queue while the reply to the
\* older one is being sent.
C17_Witness_RequestWaitsForReply ==
    /\ IsRequestObs
    /\ gattPc = "sending"
    /\ events # <<>>
    /\ Head(events).type = "Gatt"
    /\ Head(events) # obs.ev

\* C18: every decoder step samples exactly one level change.
C18_OneStepPerChange ==
    [][(unsampled > 0 /\ unsampled' = 0) => unsampled = 1]_vars

\* C19: the first report of a session is the report of VolUp, issued when
\* custom_task is first polled (in the step that starts the session, or in
\* the dispatcher step that leaves it pending); a key report is issued only
\* then or after the 2 s wait that follows a fully
\* successful press and release, and then it is the other key; the second
\* notification of a call is the report of None, after a successful key
\* report; toggle changes only when the release succeeded.
C19_KeyOfCall == IF toggle THEN VolUpReport ELSE VolDownReport
C19_State ==
    /\ customPc \in {"notify_key", "delay50", "notify_none"} =>
          sendLog[1].report = C19_KeyOfCall
    /\ customPc = "delay2s" =>
          sendLog[1].report = (IF toggle THEN VolDownReport ELSE VolUpReport)

\* C19 (see above): the state part in every state, and the steps.
C19_NotificationsAlternate ==
    /\ []C19_State
    /\ [][/\ (mainPc # "session" /\ mainPc' = "session") =>
               /\ toggle'
               /\ \/ sendLog' = <<[report |-> VolUpReport, status |-> "pending"]>>
                  \/ sendLog' = <<>> /\ customPc' = "unpolled"
          /\ (customPc = "unpolled" /\ sendLog' # sendLog) =>
               /\ sendLog = <<>>
               /\ sendLog' = <<[report |-> VolUpReport, status |-> "pending"]>>
          /\ customPc' = "unpolled" => sendLog' = <<>>
          /\ (customPc = "delay2s" /\ customPc' = "notify_key") =>
               /\ Len(sendLog) = 2
               /\ sendLog[1].status = "ok" /\ sendLog[2].status = "ok"
               /\ sendLog[2].report = NoneReport
               /\ sendLog' = <<[report |-> (IF sendLog[1].report = VolUpReport
                                              THEN VolDownReport ELSE VolUpReport),
                                status |-> "pending"]>>
          /\ (Len(sendLog') = 1 /\ sendLog'[1].status = "pending" /\ sendLog' # sendLog) =>
               \/ mainPc # "session" /\ mainPc' = "session"
               \/ customPc = "unpolled"
               \/ customPc = "delay2s"
          /\ (Len(sendLog') = 2 /\ Len(sendLog) # 2) =>
               /\ sendLog'[2].report = NoneReport
               /\ sendLog[1].status = "ok"
               /\ sendLog'[1] = sendLog[1]
          /\ (toggle' # toggle /\ mainPc = "session" /\ mainPc' = "session") =>
               /\ customPc = "notify_none" /\ customPc' = "delay2s"
               /\ sendLog'[2].status = "ok"]_vars

\* The release of the second press (VolDown) of a later session is out.
C19_Witness_SecondPressOfLaterSession ==
    /\ customPc = "notify_none"
    /\ ~toggle
    /\ sendLog[1] = [report |-> VolDownReport, status |-> "ok"]
    /\ endReason # "none"

\* C20: while all the samples since start-up make a valid gray-code turn in
\* one direction, no step reports the other direction.
C20_NeverOppositeDirection ==
    /\ turn = "left" => rot # "right"
    /\ turn = "right" => rot # "left"

\* A right turn is reported on the first edge after start-up, when the
\* histories hold two samples only.
C20_Witness_RightOnFirstEdge ==
    /\ turn = "right"
    /\ rot = "right"
    /\ Len(samples) = 2

====
